---- MODULE Spec2Model ----
(***************************************************************************)
(* Volumito: the shared status dictionary of VolumitoV1, the anti-bounce   *)
(* merge (_merge_status), the optimistic command handlers, the poller and  *)
(* the detached command workers, and the time-value resolver of            *)
(* refresh_ui.                                                             *)
(*                                                                         *)
(* Numbers.  Every quantity that the code holds as a float number of       *)
(* seconds is held here as an integer number of milliseconds, so that the  *)
(* code's "/ 1000.0" and "* (1.0/1000.0)" are exact.  Raw JSON numbers in   *)
(* the model are integers; binary floating-point rounding is not modelled. *)
(***************************************************************************)
EXTENDS Integers, Sequences, FiniteSets, TLC

VARIABLES
  status,       \* self.status: the canonical snapshot (key -> value)
  recent_seek,  \* self._recent_seek: None or (seconds, timestamp)
  now,          \* time.time(), whole seconds
  mainPc,       \* the UI thread: which handler is between its two locked regions
  mainLocal,    \* the locals that handler carries across them
  pollPc,       \* the _updater thread: "fetch" or "sleep"
  workers,      \* the detached command threads, one slot per command issued
  ncmds,        \* number of commands issued so far
  s,            \* refresh_ui's local copy of the snapshot, as an ordered tree
  display,      \* what refresh_ui last put on the screen
  lock          \* the thread that holds _status_lock

vars == <<status, recent_seek, now, mainPc, mainLocal, pollPc,
          workers, ncmds, s, display, lock>>

storeVars == <<status, recent_seek, now, mainPc, mainLocal, pollPc,
               workers, ncmds>>

uiVars == <<s, display>>

(***************************************************************************)
(* Bounds of the model                                                     *)
(***************************************************************************)
MaxTime == 3
\* commands issued in a run of Spec (every kind of command)
MaxCmds == 1
\* seeks issued in a run of SpecSeek (relative seeks only)
MaxSeeks == 2

(***************************************************************************)
(* Program constants                                                       *)
(***************************************************************************)
Window == 3
Tolerance == 2
MsThreshold == 1000
MaxDuration == 36000
VolMax == 100
VolStep == 2
SeekStep == 30

(***************************************************************************)
(* JSON values.  A value is a record of one shape:                         *)
(*   k: "absent" (the key is not in the dict), "null", "num", "str"        *)
(*      or "tree" (a nested mapping or list);                              *)
(*   v: for a number <<n>>; for a string of colon-separated numeric        *)
(*      tokens, the tokens ("1:30" is <<1, 30>>, "45" is <<45>>);          *)
(*   w: for any other string, its text.                                    *)
(***************************************************************************)
Absent == [k |-> "absent", v |-> <<>>, w |-> ""]
Null == [k |-> "null", v |-> <<>>, w |-> ""]
Num(n) == [k |-> "num", v |-> <<n>>, w |-> ""]
Str(parts) == [k |-> "str", v |-> parts, w |-> ""]
Word(t) == [k |-> "str", v |-> <<>>, w |-> t]
Tree == [k |-> "tree", v |-> <<>>, w |-> ""]

\* An optional number of seconds, in milliseconds (Python's None is ok = FALSE).
None == [ok |-> FALSE, ms |-> 0]
Some(x) == [ok |-> TRUE, ms |-> x]

Max(a, b) == IF a >= b THEN a ELSE b
Min(a, b) == IF a <= b THEN a ELSE b
Abs(a) == IF a < 0 THEN 0 - a ELSE a

\* int(x) of a float x held in milliseconds: truncation toward zero.
IntOfMs(ms) == IF ms >= 0 THEN ms \div 1000 ELSE 0 - ((0 - ms) \div 1000)

\* float(v): succeeds on a number and on a string holding one number.
FloatOf(val) ==
  IF val.k = "num" \/ (val.k = "str" /\ Len(val.v) = 1)
    THEN Some(val.v[1] * 1000)
    ELSE None

\* [float(x) for x in str(v).split(':')] and the H:M:S / M:S / single rule.
\* Only a string of numeric tokens survives float(x); str() of a number has
\* one token.
TimecodeOf(val) ==
  IF val.k \notin {"num", "str"} \/ Len(val.v) = 0 THEN None
  ELSE IF Len(val.v) = 3
    THEN Some((val.v[1] * 3600 + val.v[2] * 60 + val.v[3]) * 1000)
  ELSE IF Len(val.v) = 2
    THEN Some((val.v[1] * 60 + val.v[2]) * 1000)
  ELSE Some(val.v[1] * 1000)

(***************************************************************************)
(* The keys of the status dictionary                                       *)
(***************************************************************************)
PosKeys == <<"seek", "position", "elapsed", "progress">>
DurKeys == <<"duration", "trackDuration", "totalTime", "length", "tracklength">>
Keys == {"seek", "position", "elapsed", "progress",
         "duration", "trackDuration", "totalTime", "length", "tracklength",
         "volume", "status"}
PosKeySet == {PosKeys[i] : i \in 1..Len(PosKeys)}

EmptyDict == [key \in Keys |-> Absent]
Dict(m) == [key \in Keys |-> IF key \in DOMAIN m THEN m[key] ELSE Absent]
Has(d, key) == d[key].k # "absent"

\* dict.update(new)
Update(d, new) == [key \in Keys |-> IF Has(new, key) THEN new[key] ELSE d[key]]

\* (variant) the position keys are popped from a copy that is then not used
CleanedNotApplied(new) == new

\* (variant) volume and status are popped along with the position keys
CleanedWithSimple(new) ==
  [key \in Keys |->
     IF key \in PosKeySet \cup {"volume", "status"} THEN Absent ELSE new[key]]

\* cleaned = dict(new); cleaned.pop(k, None) for the four position keys
Cleaned(new) == [key \in Keys |-> IF key \in PosKeySet THEN Absent ELSE new[key]]

\* The first key of a priority list that is in d (0 when none is).
RECURSIVE FirstIn(_, _, _)
FirstIn(d, keys, i) ==
  IF i > Len(keys) THEN 0
  ELSE IF Has(d, keys[i]) THEN i
  ELSE FirstIn(d, keys, i + 1)

(***************************************************************************)
(* Payloads: what a GET of /api/v1/getState delivers.  isdict says whether *)
(* r.json() is a mapping; m is the mapping.                                *)
(***************************************************************************)
Mapping(m) == [isdict |-> TRUE, kind |-> "mapping", m |-> Dict(m)]
\* A JSON list of [key, value] pairs is what dict.update() would also accept.
NonMapping(kind, m) == [isdict |-> FALSE, kind |-> kind, m |-> Dict(m)]
NoPayload == [isdict |-> FALSE, kind |-> "nothing", m |-> EmptyDict]

(***************************************************************************)
(* _merge_status                                                           *)
(***************************************************************************)
NoSeek == [set |-> FALSE, target |-> 0, ts |-> 0]
RecentSeek(target, ts) == [set |-> TRUE, target |-> target, ts |-> ts]

\* (variant) an edit that is already recorded is kept
InstalledKeepsFirst(rs, target, ts) == IF rs.set THEN rs ELSE RecentSeek(target, ts)

\* self._recent_seek = (float(new_pos), time.time()): rs, the record so far,
\* plays no part
Installed(rs, target, ts) == RecentSeek(target, ts)

\* The loop of lines 438-448: the first position key that is in new and whose
\* value float() accepts; above 1000 it is taken for milliseconds.
RECURSIVE ReportedFrom(_, _)
ReportedFrom(new, i) ==
  IF i > Len(PosKeys) THEN None
  ELSE IF Has(new, PosKeys[i]) /\ FloatOf(new[PosKeys[i]]).ok
    THEN LET rv == FloatOf(new[PosKeys[i]]).ms
         IN  Some(IF rv > MsThreshold * 1000 THEN rv \div 1000 ELSE rv)
  ELSE ReportedFrom(new, i + 1)

\* (variant) only the first position key that is in new is looked at
ReportedFirstPresent(new) ==
  LET i == FirstIn(new, PosKeys, 1)
  IN  IF i = 0 \/ ~FloatOf(new[PosKeys[i]]).ok THEN None
      ELSE LET rv == FloatOf(new[PosKeys[i]]).ms
           IN  Some(IF rv > MsThreshold * 1000 THEN rv \div 1000 ELSE rv)

Reported(new) == ReportedFrom(new, 1)

\* (variant) an edit exactly 3 s old still counts as young
InWindowInclusive(rs, t) == rs.set /\ (t - rs.ts) <= Window

\* recent and (time.time() - recent[1]) < 3
InWindow(rs, t) == rs.set /\ (t - rs.ts) < Window

\* (variant) a report exactly 2 s away does not confirm
ConfirmsStrict(new, rs) ==
  ReportedFrom(new, 1).ok
  /\ Abs(ReportedFrom(new, 1).ms - rs.target) < Tolerance * 1000

\* reported is not None and abs(reported - target) <= 2
Confirms(new, rs) ==
  Reported(new).ok /\ Abs(Reported(new).ms - rs.target) <= Tolerance * 1000

\* (variant) _merge_status without its isinstance(new, dict) guard
MergePathUnguarded(rs, t, p) ==
  IF InWindow(rs, t)
    THEN IF Confirms(p.m, rs) THEN "confirm" ELSE "strip"
  ELSE "normal"

\* Which way _merge_status goes for payload p at time t.
MergePath(rs, t, p) ==
  IF ~p.isdict THEN "reject"
  ELSE IF InWindow(rs, t)
    THEN IF Confirms(p.m, rs) THEN "confirm" ELSE "strip"
  ELSE "normal"

MergedStatus(st, rs, t, p) ==
  CASE MergePath(rs, t, p) = "reject" -> st
    [] MergePath(rs, t, p) = "confirm" -> Update(st, p.m)
    [] MergePath(rs, t, p) = "strip" -> Update(st, Cleaned(p.m))
    [] OTHER -> Update(st, p.m)

\* (variant) the pending edit is dropped by every merge made inside the window
MergedRecentAlwaysCleared(rs, t, p) ==
  IF MergePath(rs, t, p) \in {"confirm", "strip"} THEN NoSeek ELSE rs

MergedRecent(rs, t, p) ==
  IF MergePath(rs, t, p) = "confirm" THEN NoSeek ELSE rs

(***************************************************************************)
(* _change_volume, _toggle_play, _seek_relative: the computations          *)
(***************************************************************************)
\* int(self.status.get('volume', 0)), with "except Exception: cur = 0"
VolumeInt(d) ==
  LET val == d["volume"]
  IN  IF val.k = "num" \/ (val.k = "str" /\ Len(val.v) = 1) THEN val.v[1] ELSE 0

\* (variant) the upper clamp is missing
NewVolumeNoCeiling(cur, delta) == Max(0, cur + delta)

\* max(0, min(100, cur + delta))
NewVolume(cur, delta) == Max(0, Min(VolMax, cur + delta))

\* 'play' in str(self.status.get('status', '')).lower()
IsPlaying(d) == d["status"].k = "str" /\ d["status"].w \in {"play", "playing"}

ToggleCmd(d) == IF IsPlaying(d) THEN "pause" ELSE "play"

\* _to_seconds_simple
ToSecondsSimple(val) ==
  IF val.k \in {"absent", "null"} THEN None
  ELSE IF FloatOf(val).ok
    THEN LET f == FloatOf(val).ms
         IN  Some(IF f > MsThreshold * 1000 THEN f \div 1000 ELSE f)
  ELSE TimecodeOf(val)

\* for k in keys: if k in s: x = s.get(k); break
GetFirst(d, keys) ==
  LET i == FirstIn(d, keys, 1) IN IF i = 0 THEN Null ELSE d[keys[i]]

\* new_pos of lines 503-508, in milliseconds
NewPos(sc, delta) ==
  LET seek == ToSecondsSimple(GetFirst(sc, PosKeys))
      dur == ToSecondsSimple(GetFirst(sc, DurKeys))
      seek_s == IF seek.ok THEN seek.ms ELSE 0
      p == Max(0, seek_s + delta * 1000)
  IN  IF dur.ok /\ dur.ms # 0 THEN Min(p, dur.ms) ELSE p

\* lines 512-520: the optimistic seek and position written into self.status
SeekWritten(st, sc, new_pos) ==
  LET orig == sc["seek"]
      inMs == orig.k = "num" /\ orig.v[1] > MsThreshold
  IN  [st EXCEPT !["seek"] = Num(IF inMs THEN new_pos ELSE IntOfMs(new_pos)),
                 !["position"] = Num(IntOfMs(new_pos))]

(***************************************************************************)
(* Requests and the detached worker threads                                *)
(***************************************************************************)
Url(cmd, param, val) == [cmd |-> cmd, param |-> param, val |-> val]

\* The four candidates of lines 529-534.
SeekUrls(new_pos) ==
  << Url("seek", "value", IntOfMs(new_pos)),
     Url("seek", "position", IntOfMs(new_pos)),
     Url("seek", "seek", new_pos),
     Url("seek", "seek", IntOfMs(new_pos)) >>

\* A worker: the requests it still has to send, whether it refetches the state
\* afterwards, and where it is ("send", then "fetch"); NoWorker once it has ended.
NoWorker ==
  [kind |-> "none", urls |-> <<>>, refetch |-> FALSE, phase |-> "done"]

\* threading.Thread(target=lambda: self._safe_get(url)) of _change_volume
\* and _toggle_play
SafeGetWorker(kind, url) ==
  [kind |-> kind, urls |-> <<url>>, refetch |-> FALSE, phase |-> "send"]

\* (variant) the worker ends after its commands, without fetching the state
RefetchWorkerNoFetch(kind, urls) ==
  [kind |-> kind, urls |-> urls, refetch |-> FALSE, phase |-> "send"]

\* _send_cmd._worker and _seek_relative._worker
RefetchWorker(kind, urls) ==
  [kind |-> kind, urls |-> urls, refetch |-> TRUE, phase |-> "send"]

(***************************************************************************)
(* The remote: what /api/v1/getState may answer.  The payload is not under *)
(* the program's control; these are the answers the model draws from.      *)
(***************************************************************************)
\* seek in milliseconds, duration in seconds: 10 s into a 3-minute track
SnapStale ==
  Mapping([seek |-> Num(10000), duration |-> Num(180),
           volume |-> Num(99), status |-> Word("play")])
\* the same track 42 s in
SnapAhead ==
  Mapping([seek |-> Num(42000), duration |-> Num(180),
           volume |-> Num(99), status |-> Word("play")])
\* position in seconds, a 30-minute track, paused
SnapSeconds ==
  Mapping([seek |-> Num(12), duration |-> Num(1800),
           volume |-> Num(1), status |-> Word("pause")])
\* stopped: no position, no duration, a volume that is not a number
SnapStopped ==
  Mapping([volume |-> Word("mute"), status |-> Word("stop")])
\* read_status() after a failed request: {}
SnapEmpty == Mapping(<<>>)
\* r.json() that is not a mapping: the list [["seek", 5000], ["volume", 7]]
SnapList == NonMapping("list", [seek |-> Num(5000), volume |-> Num(7)])

Payloads == {SnapStale, SnapAhead, SnapSeconds, SnapStopped, SnapList}

(***************************************************************************)
(* Initial state: VolumitoV1.__init__ and the start of run()               *)
(***************************************************************************)
\* what the progress bar and the time text show before the first refresh_ui
NoText == [m |-> 0, sec |-> 0]
NoDisplayText ==
  [shown |-> "init", pct |-> 0, elapsed |-> NoText, length |-> NoText,
   seek_s |-> 0, dur_s |-> 0]

NoLocal == [cur |-> 0, delta |-> 0, sc |-> EmptyDict]

\* The threads, as the holders of _status_lock: the _updater thread, the urwid
\* main loop (key handlers and refresh_ui), the detached worker of slot i.
Free == [by |-> "nobody", i |-> 0]
PollerThread == [by |-> "poller", i |-> 0]
UiThread == [by |-> "ui", i |-> 0]
WorkerThread(i) == [by |-> "worker", i |-> i]

Slots == 1..Max(MaxCmds, MaxSeeks)

InitStore ==
  /\ status = EmptyDict
  /\ recent_seek = NoSeek
  /\ now = 0
  /\ mainPc = "idle"
  /\ mainLocal = NoLocal
  /\ pollPc = "fetch"
  /\ workers = [i \in Slots |-> NoWorker]
  /\ ncmds = 0
  /\ lock = Free

Init ==
  /\ InitStore
  /\ s = <<>>
  /\ display = NoDisplayText

(***************************************************************************)
(* time.time() advances; time.sleep(1) of _updater ends with the tick      *)
(***************************************************************************)
Tick ==
  /\ now < MaxTime
  /\ now' = now + 1
  /\ pollPc' = IF pollPc = "sleep" THEN "fetch" ELSE pollPc
  /\ UNCHANGED <<status, recent_seek, mainPc, mainLocal, workers, ncmds>>
  /\ UNCHANGED <<uiVars, lock>>

(***************************************************************************)
(* _updater: one turn of the loop.  s = self.read_status() delivers the    *)
(* payload, or {} when the request fails or is not a 200; a mapping is     *)
(* merged under the lock; then time.sleep(1).                               *)
(***************************************************************************)
PollTurn(p) ==
  /\ pollPc = "fetch"
  /\ status' = IF p.isdict THEN MergedStatus(status, recent_seek, now, p) ELSE status
  /\ recent_seek' = IF p.isdict THEN MergedRecent(recent_seek, now, p) ELSE recent_seek
  /\ pollPc' = "sleep"
  /\ UNCHANGED <<now, mainPc, mainLocal, workers, ncmds>>
  /\ UNCHANGED <<uiVars, lock>>

(***************************************************************************)
(* unhandled_input: the handlers run on the UI thread, one at a time       *)
(***************************************************************************)
Spawn(w) == [workers EXCEPT ![ncmds + 1] = w]

\* _change_volume, first locked region: cur = int(self.status.get('volume', 0))
VolumeRead(delta) ==
  /\ mainPc = "idle"
  /\ ncmds < MaxCmds
  /\ mainPc' = "volume"
  /\ mainLocal' = [NoLocal EXCEPT !.cur = VolumeInt(status), !.delta = delta]
  /\ UNCHANGED <<status, recent_seek, now, pollPc, workers, ncmds>>
  /\ UNCHANGED <<uiVars, lock>>

\* _change_volume, second locked region and the thread it starts
VolumeWrite ==
  /\ mainPc = "volume"
  /\ LET new == NewVolume(mainLocal.cur, mainLocal.delta)
     IN  /\ status' = [status EXCEPT !["volume"] = Num(new)]
         /\ workers' = Spawn(SafeGetWorker("volume", Url("volume", "volume", new)))
  /\ ncmds' = ncmds + 1
  /\ mainPc' = "idle"
  /\ mainLocal' = NoLocal
  /\ UNCHANGED <<recent_seek, now, pollPc>>
  /\ UNCHANGED <<uiVars, lock>>

\* _toggle_play, first locked region: cur = str(self.status.get('status', ''))
ToggleRead ==
  /\ mainPc = "idle"
  /\ ncmds < MaxCmds
  /\ mainPc' = "toggle"
  /\ mainLocal' = [NoLocal EXCEPT !.sc = Dict([status |-> status["status"]])]
  /\ UNCHANGED <<status, recent_seek, now, pollPc, workers, ncmds>>
  /\ UNCHANGED <<uiVars, lock>>

\* _toggle_play, second locked region and the thread it starts
ToggleWrite ==
  /\ mainPc = "toggle"
  /\ LET cmd == ToggleCmd(mainLocal.sc)
     IN  /\ status' = [status EXCEPT !["status"] = Word(cmd)]
         /\ workers' = Spawn(SafeGetWorker("toggle", Url(cmd, "", 0)))
  /\ ncmds' = ncmds + 1
  /\ mainPc' = "idle"
  /\ mainLocal' = NoLocal
  /\ UNCHANGED <<recent_seek, now, pollPc>>
  /\ UNCHANGED <<uiVars, lock>>

\* _send_cmd('prev') and _send_cmd('next')
SendCmd(cmd) ==
  /\ mainPc = "idle"
  /\ ncmds < MaxCmds
  /\ workers' = Spawn(RefetchWorker("cmd", <<Url(cmd, "", 0)>>))
  /\ ncmds' = ncmds + 1
  /\ UNCHANGED <<status, recent_seek, now, mainPc, mainLocal, pollPc>>
  /\ UNCHANGED <<uiVars, lock>>

\* _seek_relative, first locked region: s = dict(self.status)
SeekRead(delta, limit) ==
  /\ mainPc = "idle"
  /\ ncmds < limit
  /\ mainPc' = "seek"
  /\ mainLocal' = [NoLocal EXCEPT !.sc = status, !.delta = delta]
  /\ UNCHANGED <<status, recent_seek, now, pollPc, workers, ncmds>>
  /\ UNCHANGED <<uiVars, lock>>

\* _seek_relative, second locked region (lines 510-525) and the worker
SeekWrite ==
  /\ mainPc = "seek"
  /\ LET new_pos == NewPos(mainLocal.sc, mainLocal.delta)
     IN  /\ status' = SeekWritten(status, mainLocal.sc, new_pos)
         /\ recent_seek' = Installed(recent_seek, new_pos, now)
         /\ workers' = Spawn(RefetchWorker("seek", SeekUrls(new_pos)))
  /\ ncmds' = ncmds + 1
  /\ mainPc' = "idle"
  /\ mainLocal' = NoLocal
  /\ UNCHANGED <<now, pollPc>>
  /\ UNCHANGED <<uiVars, lock>>

(***************************************************************************)
(* The detached workers                                                    *)
(***************************************************************************)
\* (variant) "break" for the "continue" of line 541, on a request that fails:
\* the rest of the list is dropped
WorkerSendGivesUp(i) ==
  /\ workers[i].phase = "send"
  /\ LET w == workers[i]
     IN  workers' = [workers EXCEPT ![i] =
           IF w.refetch THEN [w EXCEPT !.urls = <<>>, !.phase = "fetch"]
           ELSE NoWorker]
  /\ UNCHANGED <<status, recent_seek, now, mainPc, mainLocal, pollPc, ncmds>>
  /\ UNCHANGED <<uiVars, lock>>

\* one request of the worker's list; its outcome is ignored
WorkerSend(i) ==
  /\ workers[i].phase = "send"
  /\ LET w == workers[i]
         rest == Tail(w.urls)
     IN  workers' = [workers EXCEPT ![i] =
           IF rest # <<>> THEN [w EXCEPT !.urls = rest]
           ELSE IF w.refetch THEN [w EXCEPT !.urls = rest, !.phase = "fetch"]
           ELSE NoWorker]
  /\ UNCHANGED <<status, recent_seek, now, mainPc, mainLocal, pollPc, ncmds>>
  /\ UNCHANGED <<uiVars, lock>>

\* r = self.session.get(.../getState) answers 200 with JSON p, and
\* "with self._status_lock: self._merge_status(r.json())"; the thread ends
WorkerFetchMerge(i, p) ==
  /\ workers[i].phase = "fetch"
  /\ status' = MergedStatus(status, recent_seek, now, p)
  /\ recent_seek' = MergedRecent(recent_seek, now, p)
  /\ workers' = [workers EXCEPT ![i] = NoWorker]
  /\ UNCHANGED <<now, mainPc, mainLocal, pollPc, ncmds>>
  /\ UNCHANGED <<uiVars, lock>>

\* the request raises, or is not a 200: "except Exception: pass"; the thread ends
WorkerFetchFail(i) ==
  /\ workers[i].phase = "fetch"
  /\ workers' = [workers EXCEPT ![i] = NoWorker]
  /\ UNCHANGED <<status, recent_seek, now, mainPc, mainLocal, pollPc, ncmds>>
  /\ UNCHANGED <<uiVars, lock>>

PollStep == \E p \in Payloads \cup {SnapEmpty} : PollTurn(p)
VolumeKey == \E delta \in {VolStep, 0 - VolStep} : VolumeRead(delta)
SeekKey == \E delta \in {SeekStep, 0 - SeekStep} : SeekRead(delta, MaxCmds)
TrackKey == \E cmd \in {"prev", "next"} : SendCmd(cmd)
WorkerStep ==
  \E i \in Slots :
    \/ WorkerSend(i)
    \/ \E p \in Payloads : WorkerFetchMerge(i, p)
    \/ WorkerFetchFail(i)

Next ==
  \/ Tick
  \/ PollStep
  \/ VolumeKey
  \/ VolumeWrite
  \/ ToggleRead
  \/ ToggleWrite
  \/ TrackKey
  \/ SeekKey
  \/ SeekWrite
  \/ WorkerStep

Spec == Init /\ [][Next]_vars

(***************************************************************************)
(* The same program when the only keys pressed are '[' and ']'             *)
(***************************************************************************)
SeekKeyOnly == \E delta \in {SeekStep, 0 - SeekStep} : SeekRead(delta, MaxSeeks)

NextSeek ==
  \/ Tick
  \/ PollStep
  \/ SeekKeyOnly
  \/ SeekWrite
  \/ WorkerStep

SpecSeek == Init /\ [][NextSeek]_vars

(***************************************************************************)
(* The poller alone, on a wider choice of answers, from the store as it is *)
(* at start-up or as a seek and a volume change have just left it          *)
(***************************************************************************)
\* seek is null, position holds the seconds
SnapNullSeek == Mapping([seek |-> Null, position |-> Num(40), volume |-> Num(99)])
\* seek is the timecode "0:40", elapsed holds the seconds
SnapTimecode == Mapping([seek |-> Str(<<0, 40>>), elapsed |-> Num(38)])
\* seek says 10 s, position says 40 s
SnapBoth == Mapping([seek |-> Num(10000), position |-> Num(40)])
\* only position, as the string "41"
SnapPositionOnly == Mapping([position |-> Str(<<41>>), status |-> Word("pause")])
\* 43 s in milliseconds, and 38 s in seconds
SnapBeyond == Mapping([seek |-> Num(43000), volume |-> Num(30)])
SnapBehind == Mapping([seek |-> Num(38), duration |-> Num(180)])
\* exactly 1000 is not above 1000: it is read as 1000 s
SnapThousand == Mapping([seek |-> Num(1000), position |-> Num(40)])
\* a volume outside 0..100, no position
SnapLoud == Mapping([volume |-> Num(150), status |-> Word("play")])

MergeInputs ==
  {SnapStale, SnapAhead, SnapSeconds, SnapStopped, SnapEmpty, SnapList,
   SnapNullSeek, SnapTimecode, SnapBoth, SnapPositionOnly, SnapBeyond,
   SnapBehind, SnapThousand, SnapLoud}

\* SnapStale merged, then ']' (10 s + 30 s of 180 s) and '+' (99 + 2), all at
\* time 0, the two worker threads ended
AfterSeekAndVolume ==
  Dict([seek |-> Num(40000), position |-> Num(40), duration |-> Num(180),
        volume |-> Num(100), status |-> Word("play")])

InitMerge ==
  /\ \/ /\ status = EmptyDict
        /\ recent_seek = NoSeek
        /\ pollPc = "fetch"
        /\ ncmds = 0
     \/ /\ status = AfterSeekAndVolume
        /\ recent_seek = RecentSeek(40000, 0)
        /\ pollPc = "sleep"
        /\ ncmds = 2
  /\ now = 0
  /\ mainPc = "idle"
  /\ mainLocal = NoLocal
  /\ workers = [i \in Slots |-> NoWorker]
  /\ s = <<>>
  /\ display = NoDisplayText
  /\ lock = Free

PollAny == \E p \in MergeInputs : PollTurn(p)

NextMerge ==
  \/ Tick
  \/ PollAny

SpecMerge == InitMerge /\ [][NextMerge]_vars

(***************************************************************************)
(* refresh_ui: the time-value resolver.                                    *)
(*                                                                         *)
(* The snapshot s is an ordered tree, held as the sequence of its entries  *)
(* in the order dict iteration visits them (an entry, then the entries of  *)
(* the mapping it holds): key, depth d (0 at the top level) and value.     *)
(***************************************************************************)
Entry(key, d, val) == [key |-> key, d |-> d, val |-> val]

\* key in s, and s.get(key), at the top level
TopHas(tree, key) == \E n \in 1..Len(tree) : tree[n].d = 0 /\ tree[n].key = key
TopGet(tree, key) ==
  tree[CHOOSE n \in 1..Len(tree) : tree[n].d = 0 /\ tree[n].key = key].val

\* The candidate substrings of lines 232-233 that k.lower() contains.
PosNames == {"seek", "position", "elapsed", "progress"}
DurNames == {"duration", "trackduration", "totaltime", "length", "tracklength",
             "time", "total"}
Contained(key) ==
  CASE key = "seek" -> {"seek"}
    [] key = "position" -> {"position"}
    [] key = "elapsed" -> {"elapsed"}
    [] key = "progress" -> {"progress"}
    [] key = "duration" -> {"duration"}
    [] key = "trackDuration" -> {"duration", "trackduration"}
    [] key = "totalTime" -> {"totaltime", "time", "total"}
    [] key = "length" -> {"length"}
    [] key = "tracklength" -> {"length", "tracklength"}
    [] key = "uptime" -> {"time"}
    [] OTHER -> {}

RECURSIVE Repeat(_, _)
Repeat(x, n) == IF n = 0 THEN <<>> ELSE <<x>> \o Repeat(x, n - 1)

\* the top-level loops of lines 225-230
RECURSIVE TopCandidates(_, _, _)
TopCandidates(tree, keys, i) ==
  IF i > Len(keys) THEN <<>>
  ELSE (IF TopHas(tree, keys[i]) THEN <<TopGet(tree, keys[i])>> ELSE <<>>)
       \o TopCandidates(tree, keys, i + 1)

\* _deep_find_all: each value once per candidate its key contains
RECURSIVE DeepFindAll(_, _, _)
DeepFindAll(tree, names, n) ==
  IF n > Len(tree) THEN <<>>
  ELSE Repeat(tree[n].val, Cardinality(Contained(tree[n].key) \cap names))
       \o DeepFindAll(tree, names, n + 1)

SeekCandidates(tree) ==
  TopCandidates(tree, PosKeys, 1) \o DeepFindAll(tree, PosNames, 1)
DurCandidates(tree) ==
  TopCandidates(tree, DurKeys, 1) \o DeepFindAll(tree, DurNames, 1)

\* _parse_time and _to_number, in milliseconds
ToNumber(val) ==
  IF val.k \in {"absent", "null"} THEN None
  ELSE IF FloatOf(val).ok THEN FloatOf(val)
  ELSE TimecodeOf(val)

\* svn * sv_factor: the factors are 1 and 1000, for 1.0 and 1.0/1000.0
Scaled(ms, divisor) == IF divisor = 1 THEN ms ELSE ms \div 1000
Factors == <<1, 1000>>

\* line 261: 0 <= svs <= dvs * 1.1 and 0 < dvs < 36000
Plausible(svs, dvs) ==
  /\ 0 <= svs
  /\ 10 * svs <= 11 * dvs
  /\ 0 < dvs
  /\ dvs < MaxDuration * 1000

\* the four nested loops of lines 245-262
PairAt(sc, dc, i, j, a, b) ==
  LET svn == ToNumber(sc[i])
      dvn == ToNumber(dc[j])
      svs == Scaled(svn.ms, Factors[a])
      dvs == Scaled(dvn.ms, Factors[b])
  IN  IF svn.ok /\ dvn.ok /\ Plausible(svs, dvs)
        THEN <<[svs |-> svs, dvs |-> dvs, sf |-> Factors[a], df |-> Factors[b]]>>
        ELSE <<>>

\* for one position candidate and one duration candidate, the factor loops
PairsOf(sc, dc, i, j) ==
  PairAt(sc, dc, i, j, 1, 1) \o PairAt(sc, dc, i, j, 1, 2)
    \o PairAt(sc, dc, i, j, 2, 1) \o PairAt(sc, dc, i, j, 2, 2)

\* for one position candidate, the loop over the duration candidates
RECURSIVE PairsOfSeek(_, _, _, _)
PairsOfSeek(sc, dc, i, j) ==
  IF j > Len(dc) THEN <<>>
  ELSE PairsOf(sc, dc, i, j) \o PairsOfSeek(sc, dc, i, j + 1)

RECURSIVE PairsFrom(_, _, _)
PairsFrom(sc, dc, i) ==
  IF i > Len(sc) THEN <<>>
  ELSE PairsOfSeek(sc, dc, i, 1) \o PairsFrom(sc, dc, i + 1)

Pairs(tree) == PairsFrom(SeekCandidates(tree), DurCandidates(tree), 1)

\* (variant) the smaller duration first, whatever its unit
KeyLessByDuration(x, y) == x.dvs < y.dvs

\* the sort key of line 265: (0 if x[3] == 1.0 else 1, x[1])
KeyLess(x, y) ==
  \/ (x.df = 1 /\ y.df # 1)
  \/ ((x.df = 1) = (y.df = 1) /\ x.dvs < y.dvs)

\* list.sort is stable: an element goes behind those with a smaller key and
\* behind the earlier ones with an equal key
SortRank(pairs, n) ==
  1 + Cardinality({m \in 1..Len(pairs) :
                     \/ KeyLess(pairs[m], pairs[n])
                     \/ (~KeyLess(pairs[n], pairs[m]) /\ m < n)})

SortedPairs(pairs) ==
  [r \in 1..Len(pairs) |->
     pairs[CHOOSE n \in 1..Len(pairs) : SortRank(pairs, n) = r]]

\* lines 268-285: the first sensible duration
RECURSIVE FallbackDur(_, _)
FallbackDur(dc, j) ==
  IF j > Len(dc) THEN None
  ELSE LET dvn == ToNumber(dc[j])
       IN  IF ~dvn.ok THEN FallbackDur(dc, j + 1)
           ELSE IF 0 < dvn.ms /\ dvn.ms < MaxDuration * 1000 THEN dvn
           ELSE IF dvn.ms > MsThreshold * 1000
                   /\ 0 < dvn.ms \div 1000
                   /\ dvn.ms \div 1000 < MaxDuration * 1000
             THEN Some(dvn.ms \div 1000)
           ELSE FallbackDur(dc, j + 1)

\* lines 286-293: 0 <= svn <= (dur_s or float('inf')) * 1.1
RECURSIVE FallbackSeek(_, _, _)
FallbackSeek(sc, dur, i) ==
  IF i > Len(sc) THEN None
  ELSE LET svn == ToNumber(sc[i])
       IN  IF svn.ok /\ 0 <= svn.ms
              /\ ((dur.ok /\ dur.ms # 0) => 10 * svn.ms <= 11 * dur.ms)
             THEN svn
             ELSE FallbackSeek(sc, dur, i + 1)

\* lines 295-303: the loop breaks on a value above 1000 and otherwise runs on
RECURSIVE LastResort(_, _, _)
LastResort(sc, i, acc) ==
  IF i > Len(sc) THEN acc
  ELSE LET svn == ToNumber(sc[i])
       IN  IF ~svn.ok THEN LastResort(sc, i + 1, acc)
           ELSE IF svn.ms > MsThreshold * 1000 THEN Some(svn.ms \div 1000)
           ELSE LastResort(sc, i + 1, svn)

\* seek_s and dur_s as line 307 finds them
Resolve(tree) ==
  LET pairs == Pairs(tree)
  IN  IF pairs # <<>>
        THEN LET best == SortedPairs(pairs)[1]
             IN  [seek |-> Some(best.svs), dur |-> Some(best.dvs)]
        ELSE LET dur == FallbackDur(DurCandidates(tree), 1)
                 first == FallbackSeek(SeekCandidates(tree), dur, 1)
             IN  [seek |-> IF first.ok THEN first
                           ELSE LastResort(SeekCandidates(tree), 1, None),
                  dur |-> IF dur.ok THEN dur ELSE Some(0)]

\* _fmt: minutes and seconds of "mm:ss"
Fmt(ms) == [m |-> ms \div 60000, sec |-> (ms % 60000) \div 1000]

\* lines 307-328.  seek_s / dur_s with seek_s None raises TypeError, which
\* nothing in refresh_ui catches.
Render(tree) ==
  LET r == Resolve(tree)
  IN  IF r.dur.ms > 0
        THEN IF ~r.seek.ok
               THEN [shown |-> "TypeError", pct |-> 0, elapsed |-> NoText,
                     length |-> NoText, seek_s |-> 0, dur_s |-> r.dur.ms]
               ELSE [shown |-> "times",
                     pct |-> IF r.seek.ms <= 0 THEN 0
                             ELSE IF r.seek.ms >= r.dur.ms THEN 100
                             ELSE (r.seek.ms * 100) \div r.dur.ms,
                     elapsed |-> Fmt(r.seek.ms), length |-> Fmt(r.dur.ms),
                     seek_s |-> r.seek.ms, dur_s |-> r.dur.ms]
        ELSE [shown |-> "--:--", pct |-> 0, elapsed |-> NoText,
              length |-> NoText, seek_s |-> 0, dur_s |-> 0]

\* the resolving part of refresh_ui, on the copy s taken under the lock
RefreshUi ==
  /\ display' = Render(s)
  /\ UNCHANGED s
  /\ UNCHANGED <<storeVars, lock>>

(***************************************************************************)
(* Snapshots the resolver is run on                                        *)
(***************************************************************************)
SeekValues ==
  {Absent, Null, Num(0), Num(10), Num(45), Num(45000), Num(200000),
   Num(0 - 5), Str(<<1, 30>>), Word("abc")}
DurValues ==
  {Absent, Null, Num(0), Num(180), Num(2000), Num(180000), Str(<<3, 0>>),
   Word("n/a")}
PositionValues == {Absent, Num(20)}
\* further entries: none, a nested mapping "track" holding a duration, a
\* top-level "uptime" (its name contains "time"), a top-level "totalTime"
Extras ==
  { <<>>,
    <<Entry("track", 0, Tree), Entry("duration", 1, Num(240))>>,
    <<Entry("uptime", 0, Num(5000))>>,
    <<Entry("totalTime", 0, Num(200))>> }

Field(key, val) == IF val.k = "absent" THEN <<>> ELSE <<Entry(key, 0, val)>>

Snapshots ==
  { Field("seek", sv) \o Field("position", pv) \o Field("duration", dv) \o ex :
      sv \in SeekValues, pv \in PositionValues, dv \in DurValues, ex \in Extras }

InitResolver ==
  /\ InitStore
  /\ s \in Snapshots
  /\ display = NoDisplayText

SpecResolver == InitResolver /\ [][RefreshUi]_vars

(***************************************************************************)
(* The same program with _status_lock spelled out: entering a "with        *)
(* self._status_lock" block is a step of its own, and the block's body     *)
(* ends with the release.  The answer of the remote is drawn when it is    *)
(* merged.                                                                 *)
(***************************************************************************)
\* (variant) a lock that is given to whoever asks
CanAcquireAlways(l) == TRUE

\* threading.Lock: acquire returns when nobody holds the lock
CanAcquire(l) == l = Free

\* (variant) the block of lines 510-520 ends before _recent_seek is assigned
ReleasedBeforeInstall(l) == Free

\* lines 510-525 are one "with" block: the lock is kept from the writes of
\* seek and position to the assignment of _recent_seek
HeldThroughInstall(l) == l

\* where the main loop waits for the lock, and where it is once it has it
UiWaits == {"volume.read", "volume.write", "toggle.read", "toggle.write",
            "seek.read", "seek.write", "refresh.copy"}
UiEnter(pc) ==
  CASE pc = "volume.read" -> "in.volume.read"
    [] pc = "volume.write" -> "in.volume.write"
    [] pc = "toggle.read" -> "in.toggle.read"
    [] pc = "toggle.write" -> "in.toggle.write"
    [] pc = "seek.read" -> "in.seek.read"
    [] pc = "seek.write" -> "in.seek.write"
    [] OTHER -> "in.refresh.copy"

\* dict(self.status) as the resolver sees it
KeyOrder == PosKeys \o DurKeys \o <<"volume", "status">>
RECURSIVE TreeFrom(_, _)
TreeFrom(d, n) ==
  IF n > Len(KeyOrder) THEN <<>>
  ELSE Field(KeyOrder[n], d[KeyOrder[n]]) \o TreeFrom(d, n + 1)
TreeOf(d) == TreeFrom(d, 1)

\* _updater: "with self._status_lock", for an answer that is a mapping
PollAcquire ==
  /\ pollPc = "fetch"
  /\ CanAcquire(lock)
  /\ pollPc' = "locked"
  /\ lock' = PollerThread
  /\ UNCHANGED <<status, recent_seek, now, mainPc, mainLocal, workers, ncmds>>
  /\ UNCHANGED uiVars

\* self._merge_status(s), the end of the block, time.sleep(1)
PollMergeLocked(p) ==
  /\ pollPc = "locked"
  /\ p.isdict
  /\ status' = MergedStatus(status, recent_seek, now, p)
  /\ recent_seek' = MergedRecent(recent_seek, now, p)
  /\ lock' = Free
  /\ pollPc' = "sleep"
  /\ UNCHANGED <<now, mainPc, mainLocal, workers, ncmds>>
  /\ UNCHANGED uiVars

\* (variant) _updater without the isinstance tests: the answer is merged as
\* dict.update() takes it, lock or no lock
PollSkipUnguarded(p) ==
  /\ pollPc = "fetch"
  /\ ~p.isdict
  /\ status' = Update(status, p.m)
  /\ pollPc' = "sleep"
  /\ UNCHANGED <<recent_seek, now, mainPc, mainLocal, workers, ncmds>>
  /\ UNCHANGED <<uiVars, lock>>

\* isinstance(s, dict) fails: the lock is not asked for
PollSkip(p) ==
  /\ pollPc = "fetch"
  /\ ~p.isdict
  /\ pollPc' = "sleep"
  /\ UNCHANGED <<status, recent_seek, now, mainPc, mainLocal, workers, ncmds>>
  /\ UNCHANGED <<uiVars, lock>>

\* a key of unhandled_input, or the alarm of refresh_ui, starts a handler
UiStart(pc, delta) ==
  /\ mainPc = "idle"
  /\ mainPc' = pc
  /\ mainLocal' = [NoLocal EXCEPT !.delta = delta]
  /\ UNCHANGED <<status, recent_seek, now, pollPc, workers, ncmds>>
  /\ UNCHANGED <<uiVars, lock>>

LockVolumeKey ==
  /\ ncmds < MaxCmds
  /\ \E delta \in {VolStep, 0 - VolStep} : UiStart("volume.read", delta)
LockToggleKey == ncmds < MaxCmds /\ UiStart("toggle.read", 0)
LockSeekKey ==
  /\ ncmds < MaxCmds
  /\ \E delta \in {SeekStep, 0 - SeekStep} : UiStart("seek.read", delta)
\* the first refresh_ui of the run
RefreshAlarm == display.shown = "init" /\ UiStart("refresh.copy", 0)

UiAcquire ==
  /\ mainPc \in UiWaits
  /\ CanAcquire(lock)
  /\ mainPc' = UiEnter(mainPc)
  /\ lock' = UiThread
  /\ UNCHANGED <<status, recent_seek, now, mainLocal, pollPc, workers, ncmds>>
  /\ UNCHANGED uiVars

\* a block of the main loop that reads self.status into a local and ends
UiReadLocked(pc, local, next) ==
  /\ mainPc = pc
  /\ mainLocal' = local
  /\ mainPc' = next
  /\ lock' = Free
  /\ UNCHANGED <<status, recent_seek, now, pollPc, workers, ncmds>>
  /\ UNCHANGED uiVars

VolumeReadLocked ==
  UiReadLocked("in.volume.read",
               [mainLocal EXCEPT !.cur = VolumeInt(status)], "volume.write")
ToggleReadLocked ==
  UiReadLocked("in.toggle.read",
               [mainLocal EXCEPT !.sc = Dict([status |-> status["status"]])],
               "toggle.write")
SeekReadLocked ==
  UiReadLocked("in.seek.read", [mainLocal EXCEPT !.sc = status], "seek.write")

\* a block of the main loop that writes one key, ends, and starts the thread
UiWriteLocked(pc, key, val, w) ==
  /\ mainPc = pc
  /\ status' = [status EXCEPT ![key] = val]
  /\ workers' = Spawn(w)
  /\ ncmds' = ncmds + 1
  /\ mainPc' = "idle"
  /\ mainLocal' = NoLocal
  /\ lock' = Free
  /\ UNCHANGED <<recent_seek, now, pollPc>>
  /\ UNCHANGED uiVars

VolumeWriteLocked ==
  LET new == NewVolume(mainLocal.cur, mainLocal.delta)
  IN  UiWriteLocked("in.volume.write", "volume", Num(new),
                    SafeGetWorker("volume", Url("volume", "volume", new)))
ToggleWriteLocked ==
  LET cmd == ToggleCmd(mainLocal.sc)
  IN  UiWriteLocked("in.toggle.write", "status", Word(cmd),
                    SafeGetWorker("toggle", Url(cmd, "", 0)))

\* _seek_relative, lines 510-520: seek and position are written
SeekWriteStatus ==
  /\ mainPc = "in.seek.write"
  /\ status' = SeekWritten(status, mainLocal.sc,
                           NewPos(mainLocal.sc, mainLocal.delta))
  /\ mainPc' = "in.seek.install"
  /\ lock' = HeldThroughInstall(lock)
  /\ UNCHANGED <<recent_seek, now, mainLocal, pollPc, workers, ncmds>>
  /\ UNCHANGED uiVars

\* lines 521-525: _recent_seek is assigned; the block ends; the worker starts
SeekInstall ==
  /\ mainPc = "in.seek.install"
  /\ LET new_pos == NewPos(mainLocal.sc, mainLocal.delta)
     IN  /\ recent_seek' = Installed(recent_seek, new_pos, now)
         /\ workers' = Spawn(RefetchWorker("seek", SeekUrls(new_pos)))
  /\ ncmds' = ncmds + 1
  /\ mainPc' = "idle"
  /\ mainLocal' = NoLocal
  /\ lock' = Free
  /\ UNCHANGED <<status, now, pollPc>>
  /\ UNCHANGED uiVars

\* refresh_ui, lines 159-160: s = dict(self.status), and the block ends
CopyLocked ==
  /\ mainPc = "in.refresh.copy"
  /\ s' = TreeOf(status)
  /\ mainPc' = "refresh.resolve"
  /\ lock' = Free
  /\ UNCHANGED <<status, recent_seek, now, mainLocal, pollPc, workers, ncmds>>
  /\ UNCHANGED display

\* refresh_ui, lines 161-328, on the copy
ResolveCopy ==
  /\ mainPc = "refresh.resolve"
  /\ display' = Render(s)
  /\ mainPc' = "idle"
  /\ UNCHANGED <<status, recent_seek, now, mainLocal, pollPc, workers, ncmds>>
  /\ UNCHANGED <<s, lock>>

\* a worker's "with self._status_lock" after its getState was answered
WorkerAcquire(i) ==
  /\ workers[i].phase = "fetch"
  /\ CanAcquire(lock)
  /\ workers' = [workers EXCEPT ![i].phase = "locked"]
  /\ lock' = WorkerThread(i)
  /\ UNCHANGED <<status, recent_seek, now, mainPc, mainLocal, pollPc, ncmds>>
  /\ UNCHANGED uiVars

\* self._merge_status(r.json()), the end of the block and of the thread
WorkerMergeLocked(i, p) ==
  /\ workers[i].phase = "locked"
  /\ status' = MergedStatus(status, recent_seek, now, p)
  /\ recent_seek' = MergedRecent(recent_seek, now, p)
  /\ workers' = [workers EXCEPT ![i] = NoWorker]
  /\ lock' = Free
  /\ UNCHANGED <<now, mainPc, mainLocal, pollPc, ncmds>>
  /\ UNCHANGED uiVars

PollLocked == \E p \in Payloads \cup {SnapEmpty} : PollMergeLocked(p)
PollNotMapping == \E p \in Payloads : PollSkip(p)
WorkerSends == \E i \in Slots : WorkerSend(i)
WorkerAcquires == \E i \in Slots : WorkerAcquire(i)
WorkerLocked == \E i \in Slots : \E p \in Payloads : WorkerMergeLocked(i, p)
WorkerFails == \E i \in Slots : WorkerFetchFail(i)

NextLock ==
  \/ Tick
  \/ PollAcquire
  \/ PollLocked
  \/ PollNotMapping
  \/ LockVolumeKey
  \/ LockToggleKey
  \/ LockSeekKey
  \/ TrackKey
  \/ RefreshAlarm
  \/ UiAcquire
  \/ VolumeReadLocked
  \/ VolumeWriteLocked
  \/ ToggleReadLocked
  \/ ToggleWriteLocked
  \/ SeekReadLocked
  \/ SeekWriteStatus
  \/ SeekInstall
  \/ CopyLocked
  \/ ResolveCopy
  \/ WorkerSends
  \/ WorkerAcquires
  \/ WorkerLocked
  \/ WorkerFails

SpecLock == Init /\ [][NextLock]_vars

(***************************************************************************)
(* The same program with its end: 'q' leaves the main loop, run() sets     *)
(* _stop_event, and _updater leaves its loop at the next test.  The        *)
(* threads are scheduled fairly: time passes, a thread inside a "with"     *)
(* block runs to the end of the block, and a thread that waits for a lock  *)
(* that is given back again and again gets it.                             *)
(***************************************************************************)
\* self._stop_event.is_set(): set by run() once self.loop.run() has returned
StopEventSet == mainPc = "stopped"

\* unhandled_input 'q': raise urwid.ExitMainLoop(); run(): finally
\* self._stop_event.set()
Quit ==
  /\ mainPc = "idle"
  /\ mainPc' = "stopped"
  /\ UNCHANGED <<status, recent_seek, now, mainLocal, pollPc, workers, ncmds>>
  /\ UNCHANGED <<uiVars, lock>>

\* "while not self._stop_event.is_set()" passes: read_status(), then the lock
\* for an answer that is a mapping, none for another answer
PollAcquireRunning == ~StopEventSet /\ PollAcquire
PollNotMappingRunning == ~StopEventSet /\ PollNotMapping

\* "while not self._stop_event.is_set()" fails: _updater returns
PollExit ==
  /\ pollPc = "fetch"
  /\ StopEventSet
  /\ pollPc' = "ended"
  /\ UNCHANGED <<status, recent_seek, now, mainPc, mainLocal, workers, ncmds>>
  /\ UNCHANGED <<uiVars, lock>>

NextPoll ==
  \/ Tick
  \/ PollAcquireRunning
  \/ PollLocked
  \/ PollNotMappingRunning
  \/ PollExit
  \/ Quit
  \/ LockVolumeKey
  \/ LockToggleKey
  \/ LockSeekKey
  \/ TrackKey
  \/ RefreshAlarm
  \/ UiAcquire
  \/ VolumeReadLocked
  \/ VolumeWriteLocked
  \/ ToggleReadLocked
  \/ ToggleWriteLocked
  \/ SeekReadLocked
  \/ SeekWriteStatus
  \/ SeekInstall
  \/ CopyLocked
  \/ ResolveCopy
  \/ WorkerSends
  \/ WorkerAcquires
  \/ WorkerLocked
  \/ WorkerFails

\* the bodies of the "with self._status_lock" blocks of the main loop and of
\* the workers: none of them waits for anything
UiBlockEnds ==
  \/ VolumeReadLocked
  \/ VolumeWriteLocked
  \/ ToggleReadLocked
  \/ ToggleWriteLocked
  \/ SeekReadLocked
  \/ SeekWriteStatus
  \/ SeekInstall
  \/ CopyLocked

Scheduling ==
  /\ WF_vars(Tick)
  /\ SF_vars(PollAcquireRunning)
  /\ WF_vars(PollLocked)
  /\ WF_vars(UiBlockEnds)
  /\ WF_vars(WorkerLocked)

SpecPoll == Init /\ [][NextPoll]_vars /\ Scheduling

(***************************************************************************)
(* Vocabulary of the properties                                            *)
(***************************************************************************)
AllPayloads == Payloads \cup {SnapEmpty}

\* A step that hands payload p to _merge_status: a turn of the poller, or the
\* out-of-band fetch of a worker.
MergeStep(p) == PollTurn(p) \/ \E i \in Slots : WorkerFetchMerge(i, p)

\* The position a mapping reports, in milliseconds: the value under the first
\* of seek, position, elapsed, progress that holds a number, read as
\* milliseconds when it is above 1000 and as seconds otherwise.
ReportingKeys(m) ==
  {i \in 1..Len(PosKeys) :
     m[PosKeys[i]].k \in {"num", "str"} /\ Len(m[PosKeys[i]].v) = 1}
ReportsPosition(m) == ReportingKeys(m) # {}
ReportedMs(m) ==
  LET i == CHOOSE j \in ReportingKeys(m) : \A l \in ReportingKeys(m) : j <= l
      raw == m[PosKeys[i]].v[1]
  IN  IF raw > 1000 THEN raw ELSE raw * 1000
Near(m, target) ==
  /\ ReportsPosition(m)
  /\ ReportedMs(m) - target <= 2000
  /\ target - ReportedMs(m) <= 2000

PendingAge == now - recent_seek.ts
PosFamily(d) == [key \in PosKeySet |-> d[key]]
FullyMerged(p) ==
  \A key \in Keys :
    status'[key] = IF p.m[key].k # "absent" THEN p.m[key] ELSE status[key]

(***************************************************************************)
(* C1  Anti-bounce.  While a seek's pending edit is younger than 3 s, a    *)
(* merge of a mapping whose reported position is more than 2 s from the    *)
(* target, or that reports none, changes none of seek, position, elapsed,  *)
(* progress and leaves the pending edit as it is; so for as long as the    *)
(* edit is pending and young, position and seek hold what the seek wrote.  *)
(***************************************************************************)
AntiBounceStep ==
  \A p \in AllPayloads :
    (/\ MergeStep(p)
     /\ p.isdict
     /\ recent_seek.set
     /\ PendingAge < 3
     /\ ~Near(p.m, recent_seek.target))
    => /\ PosFamily(status') = PosFamily(status)
       /\ recent_seek' = recent_seek

AntiBounceHeld ==
  (recent_seek.set /\ PendingAge < 3)
  => /\ status["position"] = Num(recent_seek.target \div 1000)
     /\ status["seek"] \in {Num(recent_seek.target), Num(recent_seek.target \div 1000)}

AntiBounce == [][AntiBounceStep]_vars /\ []AntiBounceHeld

\* A seek to 40 s was issued, a later snapshot of another track (volume 1,
\* seek 12) has been merged, and the position still shows the target.
AntiBounceWitness ==
  /\ recent_seek = RecentSeek(40000, now - 2)
  /\ status["seek"] = Num(40000)
  /\ status["position"] = Num(40)
  /\ status["volume"] = Num(1)
  /\ status["duration"] = Num(1800)

(***************************************************************************)
(* C2  Window expiry.  A merge of a mapping made 3 s or more after the     *)
(* pending edit was issued is applied whole: every key the mapping holds,  *)
(* the position keys included, takes the mapping's value.                  *)
(***************************************************************************)
WindowExpiry ==
  [][\A p \in AllPayloads :
       (MergeStep(p) /\ p.isdict /\ recent_seek.set /\ PendingAge >= 3)
       => FullyMerged(p)]_vars

\* The edit to 40 s is still recorded, three seconds old, and seek shows the
\* 10 s the device reported.
WindowExpiryWitness ==
  /\ recent_seek.set
  /\ recent_seek.target = 40000
  /\ PendingAge >= 3
  /\ status["seek"] = Num(10000)
  /\ status["position"] = Num(40)

(***************************************************************************)
(* C3  Early reconciliation.  A merge made less than 3 s after the seek,   *)
(* of a mapping whose reported position is within 2 s of the target,       *)
(* clears the pending edit and merges the whole mapping; with no pending   *)
(* edit every merge is whole, and only a new seek installs one.            *)
(***************************************************************************)
EarlyReconciliationStep ==
  \A p \in AllPayloads :
    /\ (/\ MergeStep(p)
        /\ p.isdict
        /\ recent_seek.set
        /\ PendingAge < 3
        /\ Near(p.m, recent_seek.target))
       => (recent_seek' = NoSeek /\ FullyMerged(p))
    /\ (MergeStep(p) /\ p.isdict /\ ~recent_seek.set)
       => (recent_seek' = NoSeek /\ FullyMerged(p))

OnlySeekInstalls == (~recent_seek.set /\ recent_seek'.set) => SeekWrite

EarlyReconciliation == [][EarlyReconciliationStep /\ OnlySeekInstalls]_vars

\* The seek to 40 s wrote position 40; the device then reported 42 s, which
\* was merged, and no edit is pending.
EarlyReconciliationWitness ==
  /\ ~recent_seek.set
  /\ status["position"] = Num(40)
  /\ status["seek"] = Num(42000)

(***************************************************************************)
(* C4  Merge idempotence.  As claimed: from any reachable store, merging   *)
(* the same mapping twice in a row, the second any time after the first,   *)
(* gives after the second merge the snapshot the first one gave.           *)
(***************************************************************************)
Later == now..(MaxTime + Window)

MergedTwice(p, t2) ==
  MergedStatus(MergedStatus(status, recent_seek, now, p),
               MergedRecent(recent_seek, now, p), t2, p)

MergeIdempotentAnyDelay ==
  \A p \in AllPayloads : \A t2 \in Later :
    p.isdict => MergedTwice(p, t2) = MergedStatus(status, recent_seek, now, p)

\* As amended: the same, when the pending edit's window does not run out
\* between the two merges (an edit the first merge found young and left
\* pending is still younger than 3 s at the second).
MergeIdempotentInWindow ==
  \A p \in AllPayloads : \A t2 \in Later :
    (/\ p.isdict
     /\ (recent_seek.set /\ PendingAge < 3 /\ ~Near(p.m, recent_seek.target))
        => t2 - recent_seek.ts < 3)
    => MergedTwice(p, t2) = MergedStatus(status, recent_seek, now, p)

\* A young pending edit to 40 s, and a store in which the stale snapshot's
\* position would show if it were merged whole.
MergeIdempotentWitness ==
  /\ recent_seek.set
  /\ PendingAge < 3
  /\ recent_seek.target = 40000
  /\ status["seek"] = Num(40000)
  /\ MergedStatus(status, recent_seek, now, SnapStale)["seek"] = Num(40000)
  /\ MergedStatus(status, recent_seek, now, SnapStale)["volume"] = Num(99)
  /\ status["volume"] = Num(1)

(***************************************************************************)
(* C5  Malformed input.  A payload that is not a mapping changes neither   *)
(* the snapshot nor the pending edit, whether the poller or a worker       *)
(* fetched it, in every store state.                                       *)
(***************************************************************************)
MalformedIgnored ==
  [][\A p \in AllPayloads :
       (MergeStep(p) /\ ~p.isdict)
       => (status' = status /\ recent_seek' = recent_seek)]_vars

\* A young pending edit, and a worker about to fetch out of band.
MalformedIgnoredWitness ==
  /\ recent_seek.set
  /\ PendingAge < 3
  /\ \E i \in Slots : workers[i].phase = "fetch"
  /\ pollPc = "fetch"

(***************************************************************************)
(* C7  Seek target.  As claimed: when the snapshot holds a position p and  *)
(* a duration d, each in seconds or in milliseconds, with 0 < d < 36000 s  *)
(* and 0 <= p <= d, a relative seek installs the target                    *)
(* min(max(p + delta, 0), d).                                               *)
(***************************************************************************)
Units == {1, 1000}

\* a raw number read in the unit (1: seconds, 1000: milliseconds), in ms
InUnit(raw, unit) == IF unit = 1 THEN raw * 1000 ELSE raw

SeekTargetClamped ==
  [][\A us \in Units : \A ud \in Units :
       LET sc == mainLocal.sc
           p == InUnit(sc["seek"].v[1], us)
           d == InUnit(sc["duration"].v[1], ud)
           want == p + mainLocal.delta * 1000
       IN  (/\ mainPc = "seek"
            /\ mainPc' = "idle"
            /\ sc["seek"].k = "num"
            /\ sc["duration"].k = "num"
            /\ 0 < d
            /\ d < 36000 * 1000
            /\ 0 <= p
            /\ p <= d)
           => recent_seek'.target =
                (IF want < 0 THEN 0 ELSE IF want > d THEN d ELSE want)]_vars

(***************************************************************************)
(* C8  Out-of-band refetch.  As claimed: the detached work of every user   *)
(* action ends with one fetch of the remote state, made after its          *)
(* command(s) were sent.                                                   *)
(***************************************************************************)
WorkerEnds(i) == workers[i].kind # "none" /\ workers'[i].kind = "none"

RefetchStep(i) ==
  LET w == workers[i]
  IN  /\ WorkerEnds(i) => (w.phase = "fetch" <=> w.kind \in {"cmd", "seek"})
      /\ (w.kind # "none" /\ w.phase = "fetch")
         => /\ w.urls = <<>>
            /\ workers'[i] = w \/ WorkerEnds(i)
      /\ (w.phase = "send" /\ workers'[i].phase = "fetch") => Len(w.urls) = 1
      /\ \A p \in Payloads :
           WorkerFetchMerge(i, p) =>
             /\ status' = MergedStatus(status, recent_seek, now, p)
             /\ WorkerEnds(i)

VolumeOrZero ==
  IF status["volume"].k \in {"num", "str"} /\ Len(status["volume"].v) = 1
    THEN status["volume"].v[1]
    ELSE 0

Clamped(x) == IF x < 0 THEN 0 ELSE IF x > 100 THEN 100 ELSE x

VolumeClampStep ==
  /\ (mainPc = "idle" /\ mainPc' = "volume") => mainLocal'.cur = VolumeOrZero
  /\ (mainPc = "volume" /\ mainPc' = "idle")
     => /\ status'["volume"] = Num(Clamped(mainLocal.cur + mainLocal.delta))
        /\ \E i \in Slots :
             /\ workers[i].kind = "none"
             /\ workers'[i].kind = "volume"
             /\ workers'[i].urls =
                  <<Url("volume", "volume", Clamped(mainLocal.cur + mainLocal.delta))>>

VolumeClamp == [][VolumeClampStep]_vars

\* 99 + 2: the snapshot shows 100 and the request carries 100.
VolumeClampWitness ==
  /\ status["volume"] = Num(100)
  /\ \E i \in Slots :
       /\ workers[i].kind = "volume"
       /\ workers[i].urls = <<Url("volume", "volume", 100)>>

(***************************************************************************)
(* C6 - The resolver never fails: for every snapshot, also one with a      *)
(* plausible duration candidate and no position candidate (or only         *)
(* position candidates that do not parse), resolving raises no error and   *)
(* yields a pair of non-negative numbers or the placeholder.               *)
(***************************************************************************)
ResolverNeverFails ==
  /\ display.shown \in {"init", "times", "--:--"}
  /\ display.shown = "times" => (display.seek_s >= 0 /\ display.dur_s >= 0)

(***************************************************************************)
(* C10 - Resolver selection rule: among the combinations (position         *)
(* candidate, duration candidate, position factor, duration factor) with   *)
(* 0 <= scaledPosition <= 1.1 * scaledDuration and 0 < scaledDuration <    *)
(* 36000, the resolver returns the least one under (duration factor 1      *)
(* before 0.001, then smaller scaledDuration), ties going to the earlier   *)
(* position candidate, then the earlier duration candidate, then position  *)
(* factor 1; and {"seek": 45000, "duration": 180} resolves to (45, 180).   *)
(***************************************************************************)
ComboPos(tree, c) == Scaled(ToNumber(SeekCandidates(tree)[c[1]]).ms, Factors[c[3]])
ComboDur(tree, c) == Scaled(ToNumber(DurCandidates(tree)[c[2]]).ms, Factors[c[4]])

Combos(tree) ==
  { c \in (1..Len(SeekCandidates(tree))) \X (1..Len(DurCandidates(tree)))
          \X {1, 2} \X {1, 2} :
      /\ ToNumber(SeekCandidates(tree)[c[1]]).ok
      /\ ToNumber(DurCandidates(tree)[c[2]]).ok
      /\ 0 <= ComboPos(tree, c)
      /\ 10 * ComboPos(tree, c) <= 11 * ComboDur(tree, c)
      /\ 0 < ComboDur(tree, c)
      /\ ComboDur(tree, c) < 36000 * 1000 }

ComboBefore(tree, c, e) ==
  \/ c[4] < e[4]
  \/ c[4] = e[4] /\ ComboDur(tree, c) < ComboDur(tree, e)

ComboEarlier(c, e) ==
  \/ c[1] < e[1]
  \/ c[1] = e[1] /\ c[2] < e[2]
  \/ c[1] = e[1] /\ c[2] = e[2] /\ c[3] < e[3]

ComboLeast(tree, c) ==
  \A e \in Combos(tree) \ {c} :
    \/ ComboBefore(tree, c, e)
    \/ ~ComboBefore(tree, e, c) /\ ComboEarlier(c, e)

ExampleSnapshot ==
  <<Entry("seek", 0, Num(45000)), Entry("duration", 0, Num(180))>>

SelectionRule ==
  display.shown # "init" =>
    /\ Combos(s) # {} =>
         \E c \in Combos(s) :
           /\ ComboLeast(s, c)
           /\ display.shown = "times"
           /\ display.seek_s = ComboPos(s, c)
           /\ display.dur_s = ComboDur(s, c)
    /\ s = ExampleSnapshot =>
         (display.seek_s = 45 * 1000 /\ display.dur_s = 180 * 1000)

\* a resolved snapshot where several combinations survive, under both
\* duration factors and from two position candidates
SelectionRuleWitness ==
  /\ display.shown = "times"
  /\ \E c, e \in Combos(s) : c[4] # e[4]
  /\ \E c, e \in Combos(s) : c[1] # e[1] /\ ~ComboBefore(s, c, e)
                             /\ ~ComboBefore(s, e, c)
                             /\ ComboPos(s, c) # ComboPos(s, e)

(***************************************************************************)
(* C11 - Unit invariance of the resolver.  As claimed: for a duration d in *)
(* (0, 36000) and a seek sv in [0, d], the snapshots {seek: sv, duration:  *)
(* d}, {seek: 1000 sv, duration: d}, {seek: sv, duration: 1000 d} and      *)
(* {seek: 1000 sv, duration: 1000 d} all resolve to (sv, d).               *)
(***************************************************************************)
UnitSeeks == {0, 10, 45}
UnitDurations == {2, 180, 2000}
UnitVariant(sv, d, a, b) ==
  <<Entry("seek", 0, Num(a * sv)), Entry("duration", 0, Num(b * d))>>

UnitInvariance ==
  \A sv \in UnitSeeks : \A d \in UnitDurations : \A a, b \in {1, 1000} :
    (/\ sv <= d
     /\ display.shown # "init"
     /\ s = UnitVariant(sv, d, a, b))
    => /\ display.shown = "times"
       /\ display.seek_s = sv * 1000
       /\ display.dur_s = d * 1000

(***************************************************************************)
(* C12 - Resolved-value range.  As claimed: whenever the resolver yields a *)
(* displayed pair, 0 <= elapsed <= 1.1 * duration and 0 < duration <       *)
(* 36000, on the cross-product path and on the fallback path alike.        *)
(***************************************************************************)
ResolvedRange ==
  display.shown = "times" =>
    /\ 0 <= display.seek_s
    /\ 10 * display.seek_s <= 11 * display.dur_s
    /\ 0 < display.dur_s
    /\ display.dur_s < 36000 * 1000

(***************************************************************************)
(* C13 - Volume range.  As claimed: in every reachable state, whatever     *)
(* volume commands and merges of fetched snapshots came before, the        *)
(* snapshot's volume, when it holds one, lies in [0, 100].                 *)
(***************************************************************************)
VolumeInRange ==
  status["volume"].k = "num" =>
    (0 <= status["volume"].v[1] /\ status["volume"].v[1] <= 100)

(***************************************************************************)
(* C14 - Expiry clears the edit.  As claimed: after a merge of a mapping   *)
(* made 3 s or more after the position edit was issued, no pending edit    *)
(* remains in the store.                                                   *)
(***************************************************************************)
ExpiryClearsEdit ==
  [][\A p \in MergeInputs :
       (MergeStep(p) /\ p.isdict /\ recent_seek.set /\ PendingAge >= 3)
       => ~recent_seek'.set]_vars

(***************************************************************************)
(* C18 - Confirmation rule.  As claimed: while a position edit younger     *)
(* than 3 s is pending, a merge clears it if and only if a reported value  *)
(* exists and is within 2 s of the target, the reported value being that   *)
(* of the first of seek, position, elapsed, progress that is present in    *)
(* the incoming mapping (later keys are not looked at when an earlier one  *)
(* is present), divided by 1000 exactly when it is above 1000.             *)
(***************************************************************************)
PresentKeys(m) == {i \in 1..Len(PosKeys) : m[PosKeys[i]].k # "absent"}
FirstPresent(m) == CHOOSE i \in PresentKeys(m) : \A l \in PresentKeys(m) : i <= l
NearFirstPresent(m, target) ==
  /\ PresentKeys(m) # {}
  /\ FirstPresent(m) \in ReportingKeys(m)
  /\ Near(m, target)

ConfirmationFirstPresent ==
  [][\A p \in MergeInputs :
       (MergeStep(p) /\ p.isdict /\ recent_seek.set /\ PendingAge < 3)
       => (~recent_seek'.set <=> NearFirstPresent(p.m, recent_seek.target))]_vars

\* As amended: the reported value is that of the first of the four keys that
\* is present and holds a number; a present key whose value is not a number
\* is passed over and the next key is looked at.
ConfirmationRule ==
  [][\A p \in MergeInputs :
       (MergeStep(p) /\ p.isdict /\ recent_seek.set /\ PendingAge < 3)
       => (~recent_seek'.set <=> Near(p.m, recent_seek.target))]_vars

\* The edit to 40 s was cleared inside its window by the mapping whose seek is
\* null and whose position is 40.
ConfirmationRuleWitness ==
  /\ ~recent_seek.set
  /\ now < 3
  /\ status["seek"] = Null
  /\ status["position"] = Num(40)
  /\ status["duration"] = Num(180)

(***************************************************************************)
(* C20 - Unprotected simple path.  Every merge of a mapping that holds a   *)
(* volume or a status key sets the snapshot's volume or status to the      *)
(* mapping's value, over any value a command wrote, in every store state,  *)
(* also when the merge is filtered by a pending position edit.             *)
(***************************************************************************)
UnprotectedSimplePath ==
  [][\A p \in MergeInputs :
       (MergeStep(p) /\ p.isdict)
       => \A key \in {"volume", "status"} :
            p.m[key].k # "absent" => status'[key] = p.m[key]]_vars

\* The edit to 40 s is pending and young, position and seek show it, and the
\* volume 100 the command wrote has given way to the 30 of a mapping whose
\* position (43 s) was filtered.
UnprotectedSimplePathWitness ==
  /\ recent_seek = RecentSeek(40000, 0)
  /\ now < 3
  /\ status["seek"] = Num(40000)
  /\ status["position"] = Num(40)
  /\ status["volume"] = Num(30)

(***************************************************************************)
(* C16 - Atomic volume edit.  As claimed: under every interleaving with    *)
(* the poller and the out-of-band fetches, the value a volume command      *)
(* writes is max(0, min(100, v + delta)) for the volume v the snapshot     *)
(* holds immediately before the write.                                     *)
(***************************************************************************)
AtomicVolumeEdit ==
  [][(mainPc = "volume" /\ mainPc' = "idle")
     => status'["volume"] = Num(Clamped(VolumeOrZero + mainLocal.delta))]_vars

(***************************************************************************)
(* C19 - Last writer wins.  There is one record for the position edit; a   *)
(* relative seek issued while an edit is recorded replaces it, so the      *)
(* record holds the target and the time of the latest seek (the target     *)
(* that seek wrote as position and sent), and it changes in no other way   *)
(* than by a seek or by being cleared in a merge: window and tolerance are *)
(* measured against the latest seek.                                       *)
(***************************************************************************)
SeekInstalls ==
  /\ recent_seek'.set
  /\ recent_seek'.ts = now
  /\ status'["position"] = Num(recent_seek'.target \div 1000)
  /\ \E i \in Slots :
       /\ workers[i].kind = "none"
       /\ workers'[i].kind = "seek"
       /\ workers'[i].urls[3].val = recent_seek'.target

LastWriterWinsStep ==
  /\ (mainPc = "seek" /\ mainPc' = "idle") => SeekInstalls
  /\ recent_seek' # recent_seek
     => \/ (mainPc = "seek" /\ mainPc' = "idle")
        \/ (~recent_seek'.set /\ \E p \in AllPayloads : MergeStep(p))

LastWriterWins == [][LastWriterWinsStep]_vars

\* The second seek, issued at time 1 while the edit to 40 s was pending, has
\* put its own target, 70 s, and its own time in the record.
LastWriterWinsWitness ==
  /\ ncmds = 2
  /\ recent_seek = [set |-> TRUE, target |-> 70000, ts |-> 1]
  /\ status["position"] = Num(70)

(***************************************************************************)
(* C15 - Mutual exclusion on the store.  At most one thread (the poller,   *)
(* the main loop, a worker) is inside a block that reads or writes the     *)
(* snapshot or the pending edit, and it is the holder of the lock; every   *)
(* step that changes or copies them is made by the holder; and the main    *)
(* loop has given the lock back before it resolves the copied snapshot.    *)
(***************************************************************************)
UiInside == {"in.volume.read", "in.volume.write", "in.toggle.read",
             "in.toggle.write", "in.seek.read", "in.seek.write",
             "in.seek.install", "in.refresh.copy"}

Threads == {PollerThread, UiThread} \cup {WorkerThread(i) : i \in Slots}
IsInside(th) ==
  CASE th.by = "poller" -> pollPc = "locked"
    [] th.by = "ui" -> mainPc \in UiInside
    [] OTHER -> workers[th.i].phase = "locked"
Inside == {th \in Threads : IsInside(th)}

OneInside ==
  /\ Cardinality(Inside) <= 1
  /\ \A th \in Inside : lock = th
  /\ lock # Free => lock \in Inside

StoreStepByHolder ==
  /\ (status' # status \/ recent_seek' # recent_seek)
     => /\ lock \in Inside
        /\ lock' = Free \/ (lock' = lock /\ lock = UiThread)
  /\ (s' # s \/ (mainLocal' # mainLocal /\ mainPc \in UiInside))
     => lock = UiThread

ResolvesUnlocked == mainPc = "refresh.resolve" => lock # UiThread

ResolveStepUnlocked ==
  display' # display
  => (mainPc = "refresh.resolve" /\ lock # UiThread /\ lock' = lock)

StoreMutualExclusion ==
  /\ []OneInside
  /\ [][StoreStepByHolder /\ ResolveStepUnlocked]_vars
  /\ []ResolvesUnlocked

\* a worker is inside its block while the poller and refresh_ui wait for it
StoreMutualExclusionWitness ==
  /\ \E i \in Slots : lock = WorkerThread(i) /\ workers[i].phase = "locked"
  /\ pollPc = "fetch"
  /\ mainPc = "refresh.copy"

(***************************************************************************)
(* C17 - Atomic seek install.  The optimistic position and the pending     *)
(* edit are written in one critical section: while the position is written *)
(* and the edit is not yet recorded the main loop holds the lock and is    *)
(* alone inside, no merge and no copy by refresh_ui is made in that state, *)
(* and once the edit is recorded and for as long as it is young the        *)
(* snapshot shows the position the seek wrote.                             *)
(***************************************************************************)
SeekHalfWritten == mainPc = "in.seek.install"

HalfWrittenIsLocked ==
  SeekHalfWritten => (lock = UiThread /\ Inside = {UiThread})

HalfWrittenUnobserved ==
  SeekHalfWritten
  => /\ status' = status
     /\ s' = s
     /\ pollPc' # "locked"
     /\ \A i \in Slots : workers'[i].phase # "locked"
     /\ recent_seek' # recent_seek => (mainPc' = "idle" /\ recent_seek'.ts = now)

OptimisticProtected ==
  (recent_seek.set /\ PendingAge < 3 /\ ~SeekHalfWritten)
  => /\ status["position"] = Num(recent_seek.target \div 1000)
     /\ status["seek"] \in {Num(recent_seek.target), Num(recent_seek.target \div 1000)}

\* a merge made inside a "with" block of the poller or of a worker
LockedMerge ==
  \/ (pollPc = "locked" /\ pollPc' = "sleep")
  \/ \E i \in Slots : workers[i].phase = "locked" /\ workers'[i].kind = "none"

\* As claimed: inside the window no merge changes the position the seek wrote.
NoOverwriteInWindow ==
  (LockedMerge /\ recent_seek.set /\ PendingAge < 3)
  => PosFamily(status') = PosFamily(status)

AtomicInstallNoOverwrite ==
  /\ []HalfWrittenIsLocked
  /\ [][HalfWrittenUnobserved /\ NoOverwriteInWindow]_vars

\* As amended: inside the window a merge changes the position the seek wrote
\* only when it is the merge, whole, of a mapping that reports a position
\* within 2 s of the target, and that merge clears the edit.
OverwriteOnlyByConfirm ==
  (LockedMerge /\ recent_seek.set /\ PendingAge < 3)
  => \/ PosFamily(status') = PosFamily(status) /\ recent_seek' = recent_seek
     \/ /\ recent_seek' = NoSeek
        /\ \E p \in AllPayloads : Near(p.m, recent_seek.target) /\ FullyMerged(p)

AtomicSeekInstall ==
  /\ []HalfWrittenIsLocked
  /\ [][HalfWrittenUnobserved /\ OverwriteOnlyByConfirm]_vars
  /\ []OptimisticProtected

\* position 40 is written, the edit is not yet recorded, and the poller,
\* awake again, stands before the lock
AtomicSeekInstallWitness ==
  /\ SeekHalfWritten
  /\ status["position"] = Num(40)
  /\ ~recent_seek.set
  /\ pollPc = "fetch"
  /\ now > 0

(***************************************************************************)
(* C21 - Polling loop robustness.  A turn of _updater whose fetch fails    *)
(* (read_status returns {} for a transport error or a response that is not *)
(* a 200, or the answer is not a mapping) leaves the snapshot and the      *)
(* pending edit as they were; _updater ends only once the stop event is    *)
(* set; and while it is not set every turn comes to its sleep, and every   *)
(* sleep that ends before the time horizon is followed by the next fetch.  *)
(***************************************************************************)
\* what a failed fetch hands to _updater
FailedFetches == {SnapEmpty, SnapList}

FailedTick ==
  \E p \in FailedFetches : PollMergeLocked(p) \/ PollSkip(p)

FailedTickKeepsStore == FailedTick => UNCHANGED <<status, recent_seek>>

PollerRunsUntilStopped ==
  /\ pollPc \in {"fetch", "locked", "sleep", "ended"}
  /\ pollPc = "ended" => StopEventSet

TurnEnds ==
  (pollPc = "fetch" /\ ~StopEventSet) ~> (pollPc = "sleep" \/ StopEventSet)

FetchFollows ==
  (pollPc = "sleep" /\ now < MaxTime /\ ~StopEventSet)
  ~> (pollPc = "fetch" \/ StopEventSet)

PollingRobust ==
  /\ [][FailedTickKeepsStore]_vars
  /\ []PollerRunsUntilStopped
  /\ TurnEnds
  /\ FetchFollows

\* a turn of _updater has ended, one second or more after a seek recorded
\* its edit, the edit is still recorded, and the program has not been stopped
PollingRobustWitness ==
  /\ recent_seek.set
  /\ now > recent_seek.ts
  /\ pollPc = "sleep"
  /\ status["position"] = Num(recent_seek.target \div 1000)
  /\ ~StopEventSet

(***************************************************************************)
(* C22 - Seek dispatch order.  The worker of a relative seek is started    *)
(* with the four requests value=<seconds>, position=<seconds>,             *)
(* seek=<milliseconds>, seek=<seconds> in this order, none of them sent,   *)
(* by the step that has the optimistic position and the pending edit in    *)
(* the store; each of its steps sends the first request it still has,      *)
(* whatever became of the earlier ones, and touches nothing else; and it   *)
(* fetches and merges only when no request is left.                        *)
(***************************************************************************)
SeekVariants(target) ==
  << [cmd |-> "seek", param |-> "value", val |-> target \div 1000],
     [cmd |-> "seek", param |-> "position", val |-> target \div 1000],
     [cmd |-> "seek", param |-> "seek", val |-> target],
     [cmd |-> "seek", param |-> "seek", val |-> target \div 1000] >>

\* the worker of slot i is started by this step
SeekWorkerStarts(i) == workers[i].kind = "none" /\ workers'[i].kind = "seek"

InstalledBeforeDispatch ==
  \A i \in Slots :
    SeekWorkerStarts(i)
    => /\ recent_seek'.set
       /\ recent_seek'.ts = now
       /\ status'["position"] = Num(recent_seek'.target \div 1000)
       /\ workers'[i].urls = SeekVariants(recent_seek'.target)
       /\ workers'[i].phase = "send"

\* a step of the seek worker of slot i
SeekWorkerSteps(i) == workers[i].kind = "seek" /\ workers'[i] # workers[i]

VariantsInOrder ==
  \A i \in Slots :
    (SeekWorkerSteps(i) /\ workers[i].phase = "send")
    => /\ workers'[i].urls = Tail(workers[i].urls)
       /\ workers'[i].phase = IF Len(workers[i].urls) = 1 THEN "fetch" ELSE "send"
       /\ UNCHANGED <<status, recent_seek>>

FetchAfterLastVariant ==
  \A i \in Slots :
    (SeekWorkerSteps(i) /\ workers[i].phase # "send")
    => /\ workers[i].phase = "fetch"
       /\ workers[i].urls = <<>>
       /\ workers'[i] = NoWorker
       /\ \/ UNCHANGED <<status, recent_seek>>
          \/ \E p \in Payloads : MergeStep(p)

\* what a seek worker still has to send is the end of its list of four
SeekWorkerShape ==
  \A i \in Slots :
    workers[i].kind = "seek"
    => /\ workers[i].phase \in {"send", "fetch"}
       /\ workers[i].phase = "fetch" <=> workers[i].urls = <<>>
       /\ LET n == Len(workers[i].urls)
              last == workers[i].urls[n]
          IN  /\ n <= 4
              /\ n = 1 => (last.cmd = "seek" /\ last.param = "seek")
              /\ n >= 2 => workers[i].urls =
                             SubSeq(SeekVariants(workers[i].urls[n - 1].val),
                                    5 - n, 4)

SeekDispatchOrder ==
  /\ [][InstalledBeforeDispatch /\ VariantsInOrder /\ FetchAfterLastVariant]_vars
  /\ []SeekWorkerShape

\* the worker of a seek to 40 s has sent value=40 and position=40 and has
\* seek=40000 and seek=40 before it, while the edit it follows is recorded
SeekDispatchOrderWitness ==
  /\ recent_seek.set
  /\ recent_seek.target = 40000
  /\ \E i \in Slots :
       /\ workers[i].kind = "seek"
       /\ workers[i].phase = "send"
       /\ workers[i].urls = << [cmd |-> "seek", param |-> "seek", val |-> 40000],
                               [cmd |-> "seek", param |-> "seek", val |-> 40] >>

====
